---- MODULE Spec2Model ----
(***************************************************************************)
(* Model of blackjack_engine/src/graph_interpreter.rs: run_graph and the   *)
(* recursive run_node, as a state machine with an explicit call stack.     *)
(*                                                                         *)
(* The Lua side (node library: `op`, `pre_gizmo`, `post_gizmo`) and the    *)
(* NodeDefinitions registry are external collaborators.  Their answers are *)
(* drawn when the code asks for them: a definition at the lookup of        *)
(* run_node, the outcome of a Lua call at the call.  Each node carries its *)
(* own op_name, so each lookup is an independent entry of the registry.    *)
(***************************************************************************)
EXTENDS Integers, Sequences, FiniteSets, TLC

(***************************************************************************)
(* Bounds                                                                  *)
(***************************************************************************)
\* Number of nodes of the graph (BjkNodeId values 1..NumNodes).
NumNodes == 3

\* The names used for inputs and outputs.  The i-th declared input of a node
\* is named NamePool[i], so a node has at most Len(NamePool) inputs.
NamePool == <<"out", "other">>

Nodes == 1..NumNodes
Names == {NamePool[i] : i \in 1..Len(NamePool)}

(***************************************************************************)
(* Lua values and tables                                                   *)
(***************************************************************************)
\* mlua::Value::Nil
Nil == -1

\* A Lua table with string keys: a function whose domain is the set of keys
\* that hold a non-nil value.
EmptyTable == [k \in {} |-> Nil]

\* mlua Table::get::<_, mlua::Value>: a key that is not set reads as Nil, and
\* the conversion to mlua::Value cannot fail.
TableGet(t, k) == IF k \in DOMAIN t THEN t[k] ELSE Nil

\* mlua Table::set: storing Nil removes the key.
TableSet(t, k, v) ==
    IF v = Nil
    THEN [x \in (DOMAIN t) \ {k} |-> t[x]]
    ELSE [x \in (DOMAIN t) \cup {k} |-> IF x = k THEN v ELSE t[x]]

(***************************************************************************)
(* Option<T> as a sequence of length at most one                           *)
(***************************************************************************)
None == <<>>
Some(x) == <<x>>
IsSome(o) == Len(o) = 1
Unwrap(o) == o[1]

(***************************************************************************)
(* External parameters                                                     *)
(***************************************************************************)
\* ExternalParameter::new(node_id, param_name): a value-equality key.
ExternalParameter(node_id, param_name) == <<node_id, param_name>>

\* The value the caller stored for an external parameter: distinct per key.
NameIndex(name) == CHOOSE i \in 1..Len(NamePool) : NamePool[i] = name
ExtValue(key) == 10 * key[1] + NameIndex(key[2])

(***************************************************************************)
(* Graph model (crate::graph::BjkGraph)                                    *)
(***************************************************************************)
Connection(name, node, param_name) ==
    [name |-> name, kind |-> "Connection", node |-> node, param_name |-> param_name]
External(name) ==
    [name |-> name, kind |-> "External", node |-> 0, param_name |-> ""]

\* The output name a Connection reads from its producer.  The second input
\* of a node is named "other" and reads "out": the name of an input and the
\* name of the output it reads differ there.
ConnectionParams == {NamePool[1]}

\* The dependency kinds an input of node n may have in an acyclic graph:
\* producers have a larger id than their consumers.
AcyclicKinds(n) ==
    {[kind |-> "External", node |-> 0, param_name |-> ""]}
    \cup {[kind |-> "Connection", node |-> m, param_name |-> p] :
            m \in {x \in Nodes : x > n}, p \in ConnectionParams}

InputLists(kinds) ==
    UNION {
        {[i \in 1..len |->
            [name |-> NamePool[i], kind |-> ks[i].kind,
             node |-> ks[i].node, param_name |-> ks[i].param_name]] :
         ks \in [1..len -> kinds]} :
        len \in 0..Len(NamePool)}

RECURSIVE InputsUpTo(_)
\* All assignments of input lists to the nodes 1..n.
InputsUpTo(n) ==
    IF n = 0 THEN {<<>>}
    ELSE {Append(g, l) : g \in InputsUpTo(n - 1), l \in InputLists(AcyclicKinds(n))}

\* graph.nodes: per node the op_name, the ordered inputs and return_value.
\* return_value is only read on the target, it is None elsewhere.
MkGraph(inputs, target, ret) ==
    [n \in Nodes |->
        [op_name |-> n,
         inputs |-> inputs[n],
         return_value |-> IF n = target THEN ret ELSE None]]

\* The producers named by the Connection inputs of node n.
Producers(g, n) ==
    {g[n].inputs[i].node :
        i \in {j \in 1..Len(g[n].inputs) : g[n].inputs[j].kind = "Connection"}}

RECURSIVE Closure(_, _, _)
Closure(g, S, k) ==
    LET next == S \cup UNION {Producers(g, n) : n \in S} IN
    IF k = 0 \/ next = S THEN S ELSE Closure(g, next, k - 1)

\* The target and every node it reaches by following Connection inputs.
Required(g, target) == Closure(g, {target}, NumNodes)

\* The nodes n reaches by one or more Connection inputs.
Ancestors(g, n) == Closure(g, Producers(g, n), NumNodes)

\* The input list given to a node the target does not reach (the pass never
\* reads it): a consumer of the target when its id is below the target's,
\* no input otherwise.
UnrelatedInputs(n, target) ==
    IF n < target
    THEN <<Connection(NamePool[1], target, NamePool[1])>>
    ELSE <<>>

\* Keys of the External inputs of the graph.
ExternalKeys(g) ==
    {k \in Nodes \X Names :
        \E i \in 1..Len(g[k[1]].inputs) :
            /\ g[k[1]].inputs[i].kind = "External"
            /\ g[k[1]].inputs[i].name = k[2]}

(***************************************************************************)
(* Gizmos                                                                  *)
(***************************************************************************)
\* A BlackjackGizmo value: the data it was derived from, and whether it is
\* part of the prior state handed in by the caller or was made in this pass.
Gizmo(origin, data) == [origin |-> origin, data |-> data]

\* The prior gizmo state carried by GizmoConfig::RunGizmosInOut.
PriorGizmos == <<Gizmo("prior", EmptyTable)>>

\* enum GizmoConfig
IgnoreGizmos == [variant |-> "IgnoreGizmos", gizmos_in |-> <<>>]
RunGizmosInOut(gizmos_in) == [variant |-> "RunGizmosInOut", gizmos_in |-> gizmos_in]
RinGizmoOut == [variant |-> "RinGizmoOut", gizmos_in |-> <<>>]
GizmoConfigs == {IgnoreGizmos, RunGizmosInOut(PriorGizmos), RinGizmoOut}

\* Mutant of GizmosEnabled: only the variant with prior state enables gizmos.
GizmosEnabledOnlyInOut(config) == config.variant = "RunGizmosInOut"

\* let gizmos_enabled = matches!(&gizmo_config, RinGizmoOut | RunGizmosInOut(_))
GizmosEnabled(config) == config.variant \in {"RinGizmoOut", "RunGizmosInOut"}

(***************************************************************************)
(* The external collaborators                                              *)
(***************************************************************************)
\* NodeDefinitions::node_def(op_name): no definition, or a definition with
\* has_gizmo false ("plain") or true ("gizmo").
\* has_gizmo of a node that is not the target is never read (the && of the
\* gizmo condition stops at node_id == ctx.target_node); such a node gets the
\* definition that declares gizmo support.
DefChoices(node_id, target) ==
    IF node_id = target THEN {"absent", "plain", "gizmo"} ELSE {"absent", "gizmo"}
HasGizmo(def) == def = "gizmo"

\* lua.load("require('node_library'):getNode(op_name)").eval::<Table>()
NodeTableOutcomes == {"table", "error"}

\* node_table.get("op") and op_fn.call(input_map): the function is missing,
\* the call raises, it returns something that is no table, or it returns a
\* table.  The op of this library returns its inputs under the same names,
\* each increased by 100.
OpOutcomes == {"missing", "error", "nontable", "table"}
OpTable(input_map) == [k \in DOMAIN input_map |-> input_map[k] + 100]

\* node_table.get("pre_gizmo") and its call: missing, failing (the call raises
\* or does not return a table), or returning the rewritten input map.  The
\* hook of this library adds 1 to every input.
HookOutcomes == {"missing", "error", "ok"}
PreGizmoTable(input_map, gizmos_in) == [k \in DOMAIN input_map |-> input_map[k] + 1]

\* post_gizmo_fn.call(outputs): the hook of this library returns one gizmo
\* made from the outputs.
PostGizmoResult(outputs) == <<Gizmo("post", outputs)>>

\* RenderableThing::from_lua_value: Nil converts to no renderable, any other
\* value is wrapped.
IsRenderable(v) == v # Nil
FromLuaValue(v) == [thing |-> v]

(***************************************************************************)
(* Errors                                                                  *)
(***************************************************************************)
Err(kind, node, name) == [kind |-> kind, node |-> node, name |-> name]

(***************************************************************************)
(* State                                                                   *)
(***************************************************************************)
VARIABLES
    graph,                  \* graph: &BjkGraph
    target_node,            \* target_node: BjkNodeId
    gizmo_config,           \* ctx.gizmo_config
    external_param_values,  \* ctx.external_param_values
    node_definitions,       \* the registry entries looked up so far, per node
    outputs_cache,          \* ctx.outputs_cache
    gizmo_outputs,          \* ctx.gizmo_outputs
    stack,                  \* the activations of run_node, innermost last
    status,                 \* "init", "running", "ok", "err" or "panic"
    error,                  \* the Err run_graph returns, if any
    result,                 \* the ProgramResult run_graph returns, if any
    calls                   \* the Lua calls made so far, in order

vars == <<graph, target_node, gizmo_config, external_param_values,
          node_definitions, outputs_cache, gizmo_outputs, stack, status,
          error, result, calls>>

inputsOfPass == <<graph, target_node, gizmo_config>>

\* Mutant of Frame: the activation starts at the op, before its inputs are
\* resolved.
FrameAtOp(node_id, def) ==
    [node |-> node_id, def |-> def, idx |-> 1, input_map |-> EmptyTable,
     outputs |-> EmptyTable, pc |-> "op"]

\* An activation of run_node: node_id, node_def, the position in
\* `for input in &node.inputs`, input_map, outputs (set by the op) and the
\* place in the body.
Frame(node_id, def) ==
    [node |-> node_id, def |-> def, idx |-> 1, input_map |-> EmptyTable,
     outputs |-> EmptyTable, pc |-> "inputs"]

Top == stack[Len(stack)]
\* The activations left when the innermost one returns Ok(()).
Rest == SubSeq(stack, 1, Len(stack) - 1)
SetTop(f) == [stack EXCEPT ![Len(stack)] = f]

Call(kind, node, arg) == [kind |-> kind, node |-> node, arg |-> arg]

\* The stores a caller can pass: every External input of the graph has its
\* value, except for at most one key.
Stores(g) ==
    {[k \in ExternalKeys(g) \ missing |-> ExtValue(k)] :
        missing \in {{}} \cup {{k} : k \in ExternalKeys(g)}}

Init ==
    /\ \E inputs \in InputsUpTo(NumNodes), t \in Nodes,
          ret \in {None} \cup {Some(r) : r \in Names} :
          /\ graph = MkGraph(inputs, t, ret)
          /\ \A n \in Nodes \ Required(graph, t) : inputs[n] = UnrelatedInputs(n, t)
          /\ target_node = t
    /\ gizmo_config \in GizmoConfigs
    /\ external_param_values \in Stores(graph)
    /\ node_definitions = [n \in Nodes |-> "unread"]
    /\ outputs_cache = EmptyTable
    /\ gizmo_outputs = <<>>
    /\ stack = <<>>
    /\ status = "init"
    /\ error = None
    /\ result = None
    /\ calls = <<>>


(***************************************************************************)
(* Error propagation                                                       *)
(***************************************************************************)
\* Mutant of Unwind: the Err is recorded but no activation ends.
UnwindNone(stk) == stk

\* Mutant of Unwind: only the innermost activation ends, its caller goes on.
UnwindInnermost(stk) == SubSeq(stk, 1, Len(stk) - 1)

\* The `?` operator and `bail!`: every activation of run_node hands the Err
\* to its caller, run_graph hands it to its own caller.
Unwind(stk) == <<>>

\* The pass state after an Err was raised in the innermost activation of stk.
FailIn(stk, e) ==
    /\ stack' = Unwind(stk)
    /\ error' = IF error = None THEN Some(e) ELSE error
    /\ status' = IF Unwind(stk) = <<>> THEN "err" ELSE "running"

Fail(e) == FailIn(stack, e)

\* `expect` on a None: the thread panics.
Panic ==
    /\ stack' = <<>>
    /\ status' = "panic"
    /\ error' = error

(***************************************************************************)
(* run_node                                                                *)
(***************************************************************************)
\* ctx.outputs_cache.get(node) is Some
IsCached(cache, node) == node \in DOMAIN cache

\* Mutant of CacheHit: the cache is not consulted, every Connection input
\* runs its producer.
CacheHitNever(cache, node) == FALSE

\* if let Some(cached) = ctx.outputs_cache.get(node): the producer is not run
\* again.
CacheHit(cache, node) == IsCached(cache, node)

\* Mutant of LookupExternal: a parameter without entry reads as nil.
LookupExternalOrNil(store, ext) ==
    IF ext \in DOMAIN store THEN Some(store[ext]) ELSE Some(Nil)

\* ctx.external_param_values.0.get(&ext)
LookupExternal(store, ext) == IF ext \in DOMAIN store THEN Some(store[ext]) ELSE None

\* Mutant of CacheInsert: the outputs of the target are not stored.
CacheInsertProducersOnly(cache, node, outputs) ==
    IF node = target_node THEN cache
    ELSE [n \in (DOMAIN cache) \cup {node} |-> IF n = node THEN outputs ELSE cache[n]]

\* Mutant of CacheInsert: the new entry replaces the whole cache.
CacheInsertAlone(cache, node, outputs) == [n \in {node} |-> outputs]

\* Mutant of CacheInsert: the outputs are not stored.
CacheInsertDropped(cache, node, outputs) == cache

\* ctx.outputs_cache.insert(node_id, outputs)
CacheInsert(cache, node, outputs) ==
    [n \in (DOMAIN cache) \cup {node} |-> IF n = node THEN outputs ELSE cache[n]]

\* input_map.set(input.name, cached_output_map.get(param_name)?)
SetFromProducer(input_map, input, cached_output_map) ==
    TableSet(input_map, input.name, TableGet(cached_output_map, input.param_name))

\* Mutant of GizmoCondition: the hooks run for every node with gizmo support.
GizmoConditionAnyNode(config, node_id, target, def) ==
    GizmosEnabled(config) /\ HasGizmo(def)

\* ctx.gizmos_enabled && node_id == ctx.target_node && node_def.has_gizmo
GizmoCondition(config, node_id, target, def) ==
    GizmosEnabled(config) /\ node_id = target /\ HasGizmo(def)

\* Mutant of SuppliesGizmosIn: every enabled variant runs the pre-hook.
SuppliesGizmosInWhenEnabled(config) == GizmosEnabled(config)

\* match &ctx.gizmo_config { GizmoConfig::RunGizmosInOut(gizmos_in) => .. }
SuppliesGizmosIn(config) == config.variant = "RunGizmosInOut"

\* Mutant of Enter: a call for a node that has an activation below it is
\* refused with an error.
EnterOnce(node_id, base) ==
    \E def \in DefChoices(node_id, target_node) :
        /\ node_definitions[node_id] \in {"unread", def}
        /\ node_definitions' = [node_definitions EXCEPT ![node_id] = def]
        /\ IF def = "absent"
           THEN FailIn(Append(base, Frame(node_id, def)),
                       Err("DefinitionNotFound", node_id, ""))
           ELSE IF \E i \in 1..Len(base) : base[i].node = node_id
           THEN FailIn(Append(base, Frame(node_id, def)),
                       Err("CycleDetected", node_id, ""))
           ELSE /\ stack' = Append(base, Frame(node_id, def))
                /\ status' = "running"
                /\ error' = error

\* The entry of run_node(node_id), called with the activations `base` below
\* it: the lookup of the node definition, then the fresh input_map.
Enter(node_id, base) ==
    \E def \in DefChoices(node_id, target_node) :
        /\ node_definitions[node_id] \in {"unread", def}
        /\ node_definitions' = [node_definitions EXCEPT ![node_id] = def]
        /\ IF def = "absent"
           THEN FailIn(Append(base, Frame(node_id, def)),
                       Err("DefinitionNotFound", node_id, ""))
           ELSE /\ stack' = Append(base, Frame(node_id, def))
                /\ status' = "running"
                /\ error' = error

\* Mutant of EntryNode: the pass starts at the first node of the graph.
EntryNodeFirst(target) == CHOOSE n \in Nodes : \A m \in Nodes : n <= m

\* The node run_graph hands to run_node.
EntryNode(target) == target

\* run_graph up to the call run_node(lua, graph, &mut context, target_node).
RunGraph ==
    /\ status = "init"
    /\ gizmo_outputs' = <<>>
    /\ outputs_cache' = EmptyTable
    /\ Enter(EntryNode(target_node), <<>>)
    /\ UNCHANGED <<inputsOfPass, external_param_values, result, calls>>

Running == status = "running" /\ stack # <<>>

AtInput ==
    /\ Running
    /\ Top.pc = "inputs"
    /\ Top.idx <= Len(graph[Top.node].inputs)

CurrentInput == graph[Top.node].inputs[Top.idx]

\* A Connection input whose producer is in the cache.
InputConnectionCached ==
    /\ AtInput
    /\ CurrentInput.kind = "Connection"
    /\ CacheHit(outputs_cache, CurrentInput.node)
    /\ stack' = SetTop([Top EXCEPT
            !.input_map = SetFromProducer(Top.input_map, CurrentInput,
                                          outputs_cache[CurrentInput.node]),
            !.idx = Top.idx + 1])
    /\ UNCHANGED <<inputsOfPass, external_param_values, node_definitions,
                   outputs_cache, gizmo_outputs, status, error, result, calls>>

\* The number of nested activations of run_node the thread's stack holds.
\* An acyclic graph never needs more than NumNodes.
MaxDepth == NumNodes + 2

\* A Connection input whose producer is not in the cache: run_node recurses.
InputConnectionRun ==
    /\ AtInput
    /\ CurrentInput.kind = "Connection"
    /\ ~CacheHit(outputs_cache, CurrentInput.node)
    /\ Len(stack) < MaxDepth
    /\ Enter(CurrentInput.node, SetTop([Top EXCEPT !.pc = "call"]))
    /\ UNCHANGED <<inputsOfPass, external_param_values, outputs_cache,
                   gizmo_outputs, result, calls>>

\* The recursive run_node returned Ok: the `expect`, then input_map.set.
InputConnectionResume ==
    /\ Running
    /\ Top.pc = "call"
    /\ IF IsCached(outputs_cache, CurrentInput.node)
       THEN /\ stack' = SetTop([Top EXCEPT
                    !.input_map = SetFromProducer(Top.input_map, CurrentInput,
                                                  outputs_cache[CurrentInput.node]),
                    !.idx = Top.idx + 1,
                    !.pc = "inputs"])
            /\ UNCHANGED <<status, error>>
       ELSE Panic
    /\ UNCHANGED <<inputsOfPass, external_param_values, node_definitions,
                   outputs_cache, gizmo_outputs, result, calls>>

\* An External input: the lookup in the parameter store.
InputExternal ==
    /\ AtInput
    /\ CurrentInput.kind = "External"
    /\ LET ext == ExternalParameter(Top.node, CurrentInput.name)
           val == LookupExternal(external_param_values, ext) IN
       IF IsSome(val)
       THEN /\ stack' = SetTop([Top EXCEPT
                    !.input_map = TableSet(Top.input_map, CurrentInput.name,
                                           Unwrap(val)),
                    !.idx = Top.idx + 1])
            /\ UNCHANGED <<status, error>>
       ELSE Fail(Err("MissingExternalParameter", Top.node, CurrentInput.name))
    /\ UNCHANGED <<inputsOfPass, external_param_values, node_definitions,
                   outputs_cache, gizmo_outputs, result, calls>>

\* Mutant of PatchedInputMap: the map the pre-gizmo hook returned is dropped.
PatchedInputMapKept(input_map, new_input_map) == input_map

\* input_map = new_input_map
PatchedInputMap(input_map, new_input_map) == new_input_map

\* After the loop: the node table is loaded and the pre-gizmo hook runs when
\* its condition holds.
PreGizmo ==
    /\ Running
    /\ Top.pc = "inputs"
    /\ Top.idx > Len(graph[Top.node].inputs)
    /\ \E loaded \in NodeTableOutcomes :
        IF loaded = "error"
        THEN /\ Fail(Err("NodeTableError", Top.node, ""))
             /\ calls' = calls
        ELSE IF /\ GizmoCondition(gizmo_config, Top.node, target_node, Top.def)
                /\ SuppliesGizmosIn(gizmo_config)
        THEN \E hook \in HookOutcomes :
            IF hook = "missing"
            THEN /\ Fail(Err("PreGizmoMissing", Top.node, ""))
                 /\ calls' = calls
            ELSE /\ calls' = Append(calls, Call("pre_gizmo", Top.node, Top.input_map))
                 /\ IF hook = "error"
                    THEN Fail(Err("PreGizmoFailed", Top.node, ""))
                    ELSE /\ stack' = SetTop([Top EXCEPT
                                !.input_map = PatchedInputMap(Top.input_map,
                                    PreGizmoTable(Top.input_map,
                                                  gizmo_config.gizmos_in)),
                                !.pc = "op"])
                         /\ UNCHANGED <<status, error>>
        ELSE /\ stack' = SetTop([Top EXCEPT !.pc = "op"])
             /\ UNCHANGED <<status, error, calls>>
    /\ UNCHANGED <<inputsOfPass, external_param_values, node_definitions,
                   outputs_cache, gizmo_outputs, result>>

\* The node's `op`, and the insertion of its outputs in the cache.
RunOp ==
    /\ Running
    /\ Top.pc = "op"
    /\ \E op \in OpOutcomes :
        IF op = "missing"
        THEN /\ Fail(Err("OpMissing", Top.node, ""))
             /\ UNCHANGED <<calls, outputs_cache>>
        ELSE /\ calls' = Append(calls, Call("op", Top.node, Top.input_map))
             /\ IF op = "error"
                THEN /\ Fail(Err("OpFailed", Top.node, ""))
                     /\ outputs_cache' = outputs_cache
                ELSE IF op = "nontable"
                THEN /\ Fail(Err("OpReturnedNoTable", Top.node, ""))
                     /\ outputs_cache' = outputs_cache
                ELSE /\ outputs_cache' = CacheInsert(outputs_cache, Top.node,
                                                     OpTable(Top.input_map))
                     /\ stack' = SetTop([Top EXCEPT
                                !.outputs = OpTable(Top.input_map),
                                !.pc = "post"])
                     /\ UNCHANGED <<status, error>>
    /\ UNCHANGED <<inputsOfPass, external_param_values, node_definitions,
                   gizmo_outputs, result>>

\* Mutant of PostGizmoArg: the hook is handed the inputs of the op.
PostGizmoArgInputs(input_map, outputs) == input_map

\* The argument of the post-gizmo hook: the outputs the op just returned.
PostGizmoArg(input_map, outputs) == outputs

\* *ctx.gizmo_outputs = gizmos
StoreGizmos(old, gizmos) == gizmos

\* The post-gizmo hook when its condition holds, then Ok(()).
PostGizmo ==
    /\ Running
    /\ Top.pc = "post"
    /\ IF GizmoCondition(gizmo_config, Top.node, target_node, Top.def)
       THEN \E hook \in HookOutcomes :
            IF hook = "missing"
            THEN /\ Fail(Err("PostGizmoMissing", Top.node, ""))
                 /\ UNCHANGED <<calls, gizmo_outputs>>
            ELSE LET arg == PostGizmoArg(Top.input_map, Top.outputs) IN
                 /\ calls' = Append(calls, Call("post_gizmo", Top.node, arg))
                 /\ IF hook = "error"
                    THEN /\ Fail(Err("PostGizmoFailed", Top.node, ""))
                         /\ gizmo_outputs' = gizmo_outputs
                    ELSE /\ gizmo_outputs' = StoreGizmos(gizmo_outputs,
                                                         PostGizmoResult(arg))
                         /\ stack' = Rest
                         /\ UNCHANGED <<status, error>>
       ELSE /\ stack' = Rest
            /\ UNCHANGED <<status, error, calls, gizmo_outputs>>
    /\ UNCHANGED <<inputsOfPass, external_param_values, node_definitions,
                   outputs_cache, result>>

(***************************************************************************)
(* run_graph after run_node returned Ok                                    *)
(***************************************************************************)
\* Mutant of ReturnedValue: the first output name is read, whatever the
\* target declares.
ReturnedValueFirstName(cache, target, return_value) ==
    TableGet(cache[target], NamePool[1])

\* The table and the key the renderable is read from.
ReturnedValue(cache, target, return_value) == TableGet(cache[target], return_value)

\* Mutant of Renderable: without a return_value the first output name is
\* converted.
RenderableDefaultName(cache, target, return_value) ==
    Some(FromLuaValue(ReturnedValue(cache, target,
            IF IsSome(return_value) THEN Unwrap(return_value) ELSE NamePool[1])))

\* renderable: the converted return value, or None without a return_value.
Renderable(cache, target, return_value) ==
    IF IsSome(return_value)
    THEN Some(FromLuaValue(ReturnedValue(cache, target, Unwrap(return_value))))
    ELSE None

\* updated_gizmos: if gizmos_enabled { Some(gizmo_outputs) } else { None }
UpdatedGizmos(config, gizmos) == IF GizmosEnabled(config) THEN Some(gizmos) ELSE None

\* Mutant of UpdatedValues: the result carries an empty store.
UpdatedValuesEmpty(store) == EmptyTable

\* updated_values: external_param_values
UpdatedValues(store) == store

Finish ==
    /\ status = "running"
    /\ stack = <<>>
    /\ LET return_value == graph[target_node].return_value IN
       IF IsSome(return_value) /\ ~IsCached(outputs_cache, target_node)
       THEN /\ status' = "panic"
            /\ UNCHANGED <<error, result>>
       ELSE IF /\ IsSome(return_value)
               /\ ~IsRenderable(ReturnedValue(outputs_cache, target_node,
                                              Unwrap(return_value)))
       THEN /\ status' = "err"
            /\ error' = Some(Err("NotRenderable", target_node, Unwrap(return_value)))
            /\ result' = result
       ELSE /\ status' = "ok"
            /\ error' = error
            /\ result' = Some(
                [renderable |-> Renderable(outputs_cache, target_node, return_value),
                 updated_gizmos |-> UpdatedGizmos(gizmo_config, gizmo_outputs),
                 updated_values |-> UpdatedValues(external_param_values)])
    /\ UNCHANGED <<inputsOfPass, external_param_values, node_definitions,
                   outputs_cache, gizmo_outputs, stack, calls>>

Next ==
    \/ RunGraph
    \/ InputConnectionCached
    \/ InputConnectionRun
    \/ InputConnectionResume
    \/ InputExternal
    \/ PreGizmo
    \/ RunOp
    \/ PostGizmo
    \/ Finish

Spec == Init /\ [][Next]_vars

(***************************************************************************)
(* Observations on a pass                                                  *)
(***************************************************************************)
\* How often a Lua function of the given kind was called for node n.
CallCount(kind, n) ==
    Cardinality({i \in 1..Len(calls) : calls[i].kind = kind /\ calls[i].node = n})

OpCount(n) == CallCount("op", n)
PreCount(n) == CallCount("pre_gizmo", n)
PostCount(n) == CallCount("post_gizmo", n)

Finished == status \in {"ok", "err", "panic"}

RECURSIVE PathsVia(_, _, _, _)
\* The number of distinct Connection paths from node `from` to node `to`, and
\* the part of it that starts with one of the first k inputs of `from`.
NumPaths(g, from, to) ==
    IF from = to THEN 1 ELSE PathsVia(g, from, to, Len(g[from].inputs))
PathsVia(g, from, to, k) ==
    IF k = 0 THEN 0
    ELSE PathsVia(g, from, to, k - 1)
         + (IF g[from].inputs[k].kind = "Connection"
            THEN NumPaths(g, g[from].inputs[k].node, to)
            ELSE 0)

\* The nodes the target reaches through two or more distinct paths.
SharedNodes == {n \in Nodes : NumPaths(graph, target_node, n) >= 2}

(***************************************************************************)
(* C1                                                                      *)
(***************************************************************************)
\* C1: a node the target reaches through two or more distinct Connection
\* paths has its op invoked at most once in any pass, and exactly once when
\* the pass succeeds.
C1_Memoization ==
    \A n \in Nodes :
        /\ OpCount(n) > 1 => n \notin SharedNodes
        /\ (status = "ok" /\ OpCount(n) # 1) => n \notin SharedNodes

\* A successful pass over a graph with a shared producer, which ran once.
C1_Witness ==
    /\ status = "ok"
    /\ \E n \in SharedNodes : OpCount(n) = 1

(***************************************************************************)
(* C2                                                                      *)
(***************************************************************************)
\* C2: an op is invoked, and a cache entry made, only for the target and the
\* nodes it reaches through Connection inputs, in every pass.
C2_OnlyRequiredNodesRun ==
    LET ran == {n \in Nodes : OpCount(n) > 0 \/ n \in DOMAIN outputs_cache} IN
    ran = {} \/ ran \subseteq Required(graph, target_node)

\* A finished pass that ran a producer of the target while a node the target
\* does not reach was left alone.
C2_Witness ==
    /\ Finished
    /\ \E n \in Nodes \ Required(graph, target_node) : OpCount(n) = 0
    /\ \E m \in Required(graph, target_node) \ {target_node} : OpCount(m) = 1

(***************************************************************************)
(* C3                                                                      *)
(***************************************************************************)
\* C3: when the target declares a return output name r and the pass succeeds,
\* the renderable is the conversion of the value stored under r in the
\* target's cache entry, whatever the entry holds under other names.
C3_CorrectExtraction ==
    (status = "ok" /\ IsSome(graph[target_node].return_value)) =>
        LET r == Unwrap(graph[target_node].return_value) IN
        /\ target_node \in DOMAIN outputs_cache
        /\ r \in DOMAIN outputs_cache[target_node]
        /\ Unwrap(result).renderable = Some(FromLuaValue(outputs_cache[target_node][r]))

\* A successful pass whose target produced two outputs with different values
\* and returns the second one.
C3_Witness ==
    /\ status = "ok"
    /\ graph[target_node].return_value = Some("other")
    /\ DOMAIN outputs_cache[target_node] = {"out", "other"}
    /\ outputs_cache[target_node]["out"] # outputs_cache[target_node]["other"]

(***************************************************************************)
(* C4                                                                      *)
(***************************************************************************)
\* C4: when the target declares no return output name, a successful pass has
\* no renderable, the target's op ran exactly once and the target is cached.
C4_AbsentReturn ==
    (status = "ok" /\ graph[target_node].return_value = None) =>
        /\ Unwrap(result).renderable = None
        /\ OpCount(target_node) = 1
        /\ target_node \in DOMAIN outputs_cache

\* A successful pass without return output whose target produced an output.
C4_Witness ==
    /\ status = "ok"
    /\ graph[target_node].return_value = None
    /\ Unwrap(result).renderable = None
    /\ target_node \in DOMAIN outputs_cache
    /\ "out" \in DOMAIN outputs_cache[target_node]

(***************************************************************************)
(* C5                                                                      *)
(***************************************************************************)
\* C5: the result of a successful pass carries a gizmo sequence exactly when
\* the GizmoConfig is not IgnoreGizmos, whether or not the target's
\* definition declares gizmo support.
C5_GizmosPresentIffEnabled ==
    status = "ok" =>
        (IsSome(Unwrap(result).updated_gizmos)
            <=> gizmo_config.variant # "IgnoreGizmos")

\* A successful pass under RinGizmoOut whose target has no gizmo support and
\* still returns a (here empty) gizmo sequence.
C5_Witness ==
    /\ status = "ok"
    /\ gizmo_config = RinGizmoOut
    /\ node_definitions[target_node] = "plain"
    /\ Unwrap(result).updated_gizmos = Some(<<>>)

(***************************************************************************)
(* C6                                                                      *)
(***************************************************************************)
\* run_node was called for n and found its definition.
Evaluated(n) == node_definitions[n] \in {"plain", "gizmo"}

\* The positions of the External inputs of n that have no entry in the store.
MissingInputs(n) ==
    {i \in 1..Len(graph[n].inputs) :
        /\ graph[n].inputs[i].kind = "External"
        /\ ExternalParameter(n, graph[n].inputs[i].name)
               \notin DOMAIN external_param_values}

MissingError(n, i) ==
    Some(Err("MissingExternalParameter", n, graph[n].inputs[i].name))

\* The nodes run while the inputs of n before position i are resolved.
ResolvedBefore(n, i) ==
    Closure(graph,
            {graph[n].inputs[j].node :
                j \in {k \in 1..(i - 1) : graph[n].inputs[k].kind = "Connection"}},
            NumNodes)

\* The pass ended with an error raised for an input of n before position i.
EarlierInputFailed(n, i) ==
    /\ IsSome(error)
    /\ \/ Unwrap(error).node \in ResolvedBefore(n, i)
       \/ \E j \in MissingInputs(n) : j < i /\ error = MissingError(n, j)

\* C6 as claimed: an evaluated node with an External input that has no entry
\* in the store makes the pass fail with the missing-external-parameter error
\* naming that node and input; its op is never invoked and it is never cached.
C6_AsClaimed ==
    \A n \in Nodes : \A i \in MissingInputs(n) :
        Evaluated(n) =>
            /\ OpCount(n) = 0
            /\ n \notin DOMAIN outputs_cache
            /\ Finished => (status = "err" /\ error = MissingError(n, i))

\* C6 amended: such a node is never run nor cached and the pass fails; the
\* error is the missing-external-parameter error naming that node and input
\* unless an earlier input of the node has already failed, in which case the
\* pass returns that earlier error.
C6_MissingParameterFailure ==
    \A n \in Nodes : \A i \in MissingInputs(n) :
        Evaluated(n) =>
            /\ OpCount(n) = 0
            /\ n \notin DOMAIN outputs_cache
            /\ Finished =>
                /\ status = "err"
                /\ error = MissingError(n, i) \/ EarlierInputFailed(n, i)

\* A pass that failed on the missing parameter of a node that is not the
\* target, after another node was run.
C6_Witness ==
    /\ status = "err"
    /\ \E n \in Nodes \ {target_node} : \E i \in MissingInputs(n) :
        /\ Evaluated(n)
        /\ error = MissingError(n, i)
        /\ OpCount(n) = 0
    /\ Len(calls) > 0

(***************************************************************************)
(* C7                                                                      *)
(***************************************************************************)
\* The Connection inputs of n whose producer is cached without the output
\* the input names.
DanglingInputs(n) ==
    {i \in 1..Len(graph[n].inputs) :
        /\ graph[n].inputs[i].kind = "Connection"
        /\ graph[n].inputs[i].node \in DOMAIN outputs_cache
        /\ graph[n].inputs[i].param_name
               \notin DOMAIN outputs_cache[graph[n].inputs[i].node]}

\* C7 as claimed: when a Connection input of an evaluated node names an
\* output its producer's cache entry does not have, the pass fails and the
\* consumer's op is not invoked.
C7_AsClaimed ==
    \A n \in Nodes :
        (Evaluated(n) /\ DanglingInputs(n) # {}) =>
            /\ OpCount(n) = 0
            /\ status # "ok"

(***************************************************************************)
(* C8                                                                      *)
(***************************************************************************)
\* C8: the first error ends the pass: run_graph returns it without a result,
\* no activation of run_node is left, and no call of an op or hook, no cache
\* insertion and no other error follows it.
C8_ErrorAbortsPass ==
    [][/\ IsSome(error') =>
            (status' = "err" /\ stack' = <<>> /\ result' = None)
       /\ IsSome(error) =>
            (calls' = calls /\ error' = error /\ outputs_cache' = outputs_cache
             /\ gizmo_outputs' = gizmo_outputs)]_vars

\* A pass that failed in the op of a producer, two activations deep, before
\* the target's op was invoked.
C8_Witness ==
    /\ status = "err"
    /\ result = None
    /\ Unwrap(error).kind = "OpFailed"
    /\ Unwrap(error).node # target_node
    /\ OpCount(target_node) = 0
    /\ \E n \in Nodes : OpCount(n) = 1 /\ n \in DOMAIN outputs_cache

(***************************************************************************)
(* C9                                                                      *)
(***************************************************************************)
\* C9: in a successful pass with gizmos enabled and a target whose definition
\* declares gizmo support, the gizmo sequence of the result is what the
\* target's post-gizmo hook returned for the target's cached outputs; the
\* hook was called once, for the target only.
C9_GizmoOutputReplaced ==
    (/\ status = "ok"
     /\ GizmosEnabled(gizmo_config)
     /\ node_definitions[target_node] = "gizmo") =>
        /\ Unwrap(result).updated_gizmos
               = Some(PostGizmoResult(outputs_cache[target_node]))
        /\ \A i \in 1..Len(calls) :
               calls[i].kind = "post_gizmo" =>
                   /\ calls[i].node = target_node
                   /\ calls[i].arg = outputs_cache[target_node]
        /\ PostCount(target_node) = 1

\* A successful pass with prior gizmo state, a target with gizmo support and
\* non-empty outputs, and a producer that ran.
C9_Witness ==
    /\ status = "ok"
    /\ gizmo_config = RunGizmosInOut(PriorGizmos)
    /\ node_definitions[target_node] = "gizmo"
    /\ outputs_cache[target_node] # EmptyTable
    /\ \E n \in Nodes \ {target_node} : OpCount(n) = 1
    /\ Unwrap(result).updated_gizmos # Some(PriorGizmos)

(***************************************************************************)
(* C10                                                                     *)
(***************************************************************************)
\* The four conditions of the pre-gizmo hook.
PreHookConditions(n) ==
    /\ gizmo_config.variant # "IgnoreGizmos"
    /\ n = target_node
    /\ node_definitions[n] = "gizmo"
    /\ gizmo_config.variant = "RunGizmosInOut"

\* C10 as claimed: in a pass the pre-gizmo hook is invoked for a node if and
\* only if the four conditions hold.
C10_AsClaimed ==
    Finished =>
        \A n \in Nodes : (PreCount(n) >= 1) <=> PreHookConditions(n)

\* C10 amended: the hook is invoked for a node only if the four conditions
\* hold, and then once; when they hold and the node's op is invoked, the hook
\* was invoked.  A pass that fails before the hook step does not invoke it.
C10_PreHookConditions ==
    \A n \in Nodes :
        /\ PreCount(n) >= 1 => (PreHookConditions(n) /\ PreCount(n) = 1)
        /\ (PreHookConditions(n) /\ OpCount(n) >= 1) => PreCount(n) = 1

\* A successful pass in which the hook ran for the target and a producer with
\* gizmo support ran without it.
C10_Witness ==
    /\ status = "ok"
    /\ PreCount(target_node) = 1
    /\ \E n \in Nodes \ {target_node} :
        /\ node_definitions[n] = "gizmo"
        /\ OpCount(n) = 1
        /\ PreCount(n) = 0

(***************************************************************************)
(* C11                                                                     *)
(***************************************************************************)
\* The conditions of the post-gizmo hook: gizmos are not disabled, the node
\* is the target, its definition declares gizmo support, and its op returned
\* a mapping (which the code inserts in the cache at once).
PostHookConditions(n) ==
    /\ gizmo_config.variant # "IgnoreGizmos"
    /\ n = target_node
    /\ node_definitions[n] = "gizmo"
    /\ n \in DOMAIN outputs_cache

PostHookMissing(n) == error = Some(Err("PostGizmoMissing", n, ""))

\* C11 as claimed: in a pass the post-gizmo hook is invoked for a node if and
\* only if the conditions hold.
C11_AsClaimed ==
    Finished =>
        \A n \in Nodes : (PostCount(n) >= 1) <=> PostHookConditions(n)

\* C11 amended: the post-gizmo hook is invoked for a node only if the
\* conditions hold, and then once; when they hold the hook is invoked unless
\* the operation has no post_gizmo function, in which case the pass fails
\* without a hook call.  This is so under both enabled variants.
C11_PostHookConditions ==
    \A n \in Nodes :
        /\ PostCount(n) >= 1 => (PostHookConditions(n) /\ PostCount(n) = 1)
        /\ (Finished /\ PostHookConditions(n)) =>
               (PostCount(n) = 1 \/ PostHookMissing(n))

\* A successful pass under RinGizmoOut: the post-hook ran for the target, the
\* pre-hook did not, and a producer with gizmo support ran without hook.
C11_Witness ==
    /\ status = "ok"
    /\ gizmo_config = RinGizmoOut
    /\ PostCount(target_node) = 1
    /\ PreCount(target_node) = 0
    /\ \E n \in Nodes \ {target_node} :
        /\ node_definitions[n] = "gizmo"
        /\ OpCount(n) = 1
        /\ PostCount(n) = 0

(***************************************************************************)
(* C12                                                                     *)
(***************************************************************************)
RECURSIVE BuildInputs(_, _, _, _, _)
\* The input map the loop over the first k declared inputs of n builds from
\* the cached producer outputs and the stored values.
BuildInputs(g, n, k, cache, store) ==
    IF k = 0 THEN EmptyTable
    ELSE LET prev == BuildInputs(g, n, k - 1, cache, store)
             input == g[n].inputs[k] IN
         IF input.kind = "Connection"
         THEN SetFromProducer(prev, input, cache[input.node])
         ELSE TableSet(prev, input.name,
                       Unwrap(LookupExternal(store, ExternalParameter(n, input.name))))

BuiltInputs(n) ==
    BuildInputs(graph, n, Len(graph[n].inputs), outputs_cache, external_param_values)

\* The positions in calls of the pre-gizmo calls for n made before position i.
PreCallsBefore(n, i) ==
    {j \in 1..(i - 1) : calls[j].kind = "pre_gizmo" /\ calls[j].node = n}

\* C12: the input map passed to a node's op is the map the pre-gizmo hook
\* returned when that hook was invoked for the node (the hook having been
\* handed the map built from the declared inputs), and otherwise exactly the
\* map built from the declared inputs; with gizmos disabled no hook is
\* invoked, so the unrewritten inputs reach the target's op.
C12_OpInputMap ==
    \A i \in 1..Len(calls) :
        calls[i].kind = "op" =>
            LET n == calls[i].node
                pre == PreCallsBefore(n, i) IN
            /\ gizmo_config = IgnoreGizmos => pre = {}
            /\ IF pre = {}
               THEN calls[i].arg = BuiltInputs(n)
               ELSE /\ calls[i].arg
                          = PreGizmoTable(BuiltInputs(n), gizmo_config.gizmos_in)
                    /\ \A j \in pre : calls[j].arg = BuiltInputs(n)

\* A successful pass whose target has a Connection and an External input and
\* whose op received the map rewritten by the pre-gizmo hook, while its
\* producer received its own built map.
C12_Witness ==
    /\ status = "ok"
    /\ PreCount(target_node) = 1
    /\ DOMAIN BuiltInputs(target_node) = {"out", "other"}
    /\ \E i \in 1..Len(graph[target_node].inputs) :
           graph[target_node].inputs[i].kind = "Connection"
    /\ \E i \in 1..Len(graph[target_node].inputs) :
           graph[target_node].inputs[i].kind = "External"
    /\ \E i \in 1..Len(calls) :
        /\ calls[i].kind = "op"
        /\ calls[i].node = target_node
        /\ calls[i].arg # BuiltInputs(target_node)
    /\ \E i \in 1..Len(calls) :
        /\ calls[i].kind = "op"
        /\ calls[i].node # target_node
        /\ calls[i].arg # EmptyTable

(***************************************************************************)
(* C13                                                                     *)
(***************************************************************************)
\* The recursive run_node of the current Connection input has returned Ok.
ProducerReturned == Running /\ Top.pc = "call"

\* run_node(target_node) has returned Ok to run_graph.
TargetReturned == status = "running" /\ stack = <<>>

\* C13: whenever run_node has returned success for a node, that node has an
\* entry in the output cache, so neither `expect` (after the recursive call,
\* and on the target in run_graph) ever panics.
C13_SuccessImpliesCached ==
    /\ status # "panic"
    /\ ProducerReturned => IsCached(outputs_cache, CurrentInput.node)
    /\ TargetReturned => IsCached(outputs_cache, target_node)

\* A successful pass that went through both `expect`s: the target declares a
\* return output and a producer was run by the recursive call.
C13_Witness ==
    /\ status = "ok"
    /\ IsSome(graph[target_node].return_value)
    /\ IsCached(outputs_cache, target_node)
    /\ \E i \in 1..Len(graph[target_node].inputs) :
        /\ graph[target_node].inputs[i].kind = "Connection"
        /\ OpCount(graph[target_node].inputs[i].node) = 1
        /\ IsCached(outputs_cache, graph[target_node].inputs[i].node)

(***************************************************************************)
(* C14                                                                     *)
(***************************************************************************)
\* Every entry of the cache is still there, with the same outputs, after the
\* step.
EntriesKept ==
    \A n \in DOMAIN outputs_cache :
        /\ n \in DOMAIN outputs_cache'
        /\ outputs_cache'[n] = outputs_cache[n]

\* C14: the output cache starts empty and only grows during a pass: an entry
\* is never removed and never replaced by a different output mapping.
C14_CacheOnlyGrows ==
    /\ outputs_cache = EmptyTable
    /\ [][EntriesKept]_vars

\* A successful pass that cached three nodes, one of them with outputs.
C14_Witness ==
    /\ status = "ok"
    /\ \E n, m \in Nodes \ {target_node} :
        /\ n # m
        /\ {n, m, target_node} \subseteq DOMAIN outputs_cache
        /\ outputs_cache[n] # EmptyTable

(***************************************************************************)
(* C15                                                                     *)
(***************************************************************************)
\* The innermost activation of run_node is for a node that was in the output
\* cache when it was called, and has not reached its own insert.
InCallForCachedNode ==
    /\ Running
    /\ Top.pc # "post"
    /\ IsCached(outputs_cache, Top.node)

\* C15, its precondition: run_node is never called for a node that is in the
\* output cache.  run_graph calls it for the target with the cache it has
\* just created, and the input loop calls it only behind its cache test.
C15_NeverCalledForCachedNode == ~InCallForCachedNode

(***************************************************************************)
(* C16                                                                     *)
(***************************************************************************)
\* The producers named by the Connection inputs of n before position k.
ProducersBefore(n, k) ==
    {graph[n].inputs[j].node :
        j \in {i \in 1..(k - 1) : graph[n].inputs[i].kind = "Connection"}}

\* run_node is called for q in this step.
Entered(q) == node_definitions'[q] # node_definitions[q]

\* The op of n is called in this step.
OpInvoked(n) ==
    /\ Len(calls') = Len(calls) + 1
    /\ calls'[Len(calls')].kind = "op"
    /\ calls'[Len(calls')].node = n

\* A call of run_node is either the one run_graph makes for the target, or
\* the one the innermost activation makes for the producer of its current
\* input, which is not cached while the producers of all its earlier inputs
\* are.
EnteredInOrder(q) ==
    \/ status = "init" /\ q = target_node
    \/ /\ AtInput
       /\ CurrentInput.kind = "Connection"
       /\ CurrentInput.node = q
       /\ q \notin DOMAIN outputs_cache
       /\ ProducersBefore(Top.node, Top.idx) \subseteq DOMAIN outputs_cache

\* While the producer p of an input of n is not cached, the producer q of a
\* later input has not been run, unless it was cached before or p itself
\* depends on it.
LaterProducersWait ==
    \A n \in Nodes : \A k \in 1..Len(graph[n].inputs) :
        LET q == graph[n].inputs[k].node IN
        (/\ graph[n].inputs[k].kind = "Connection"
         /\ node_definitions[q] # "unread"
         /\ q \notin DOMAIN outputs_cache
         /\ node_definitions[n] # "unread") =>
            \A p \in ProducersBefore(n, k) \ DOMAIN outputs_cache :
                q \in Closure(graph, {p}, NumNodes)

\* C16: a node's op is invoked only after every producer named by one of its
\* Connection inputs is in the output cache; producers that are not cached
\* are run one at a time, by the innermost activation, in the declared order
\* of its inputs; an error at an earlier input keeps the producers of later
\* inputs from being run.
C16_DependenciesFirst ==
    /\ []LaterProducersWait
    /\ [][\A n \in Nodes :
            /\ OpInvoked(n) => Producers(graph, n) \subseteq DOMAIN outputs_cache
            /\ Entered(n) => EnteredInOrder(n)]_vars

\* A pass that failed in the op of the producer of the target's first input,
\* after that producer's own inputs were resolved, and never ran the
\* producer of the target's second input.
C16_Witness ==
    /\ status = "err"
    /\ Len(graph[target_node].inputs) = 2
    /\ graph[target_node].inputs[1].kind = "Connection"
    /\ graph[target_node].inputs[2].kind = "Connection"
    /\ LET p == graph[target_node].inputs[1].node
           q == graph[target_node].inputs[2].node IN
       /\ p # q
       /\ error = Some(Err("OpFailed", p, ""))
       /\ node_definitions[q] = "unread"
       /\ OpCount(p) = 1
       /\ Len(graph[p].inputs) > 0

(***************************************************************************)
(* C17                                                                     *)
(***************************************************************************)
\* The input lists with the input at position i of node n replaced by a
\* Connection to node m.
WithConnection(inputs, n, i, m) ==
    [inputs EXCEPT ![n][i] = Connection(NamePool[i], m, NamePool[1])]

\* The dependency kinds of the graphs the caller edits: node n reads an
\* external parameter or the node that follows it.
ChainKinds(n) ==
    {[kind |-> "External", node |-> 0, param_name |-> ""]}
    \cup {[kind |-> "Connection", node |-> m, param_name |-> NamePool[1]] :
            m \in {x \in Nodes : x = n + 1}}

RECURSIVE ChainInputsUpTo(_)
ChainInputsUpTo(n) ==
    IF n = 0 THEN {<<>>}
    ELSE {Append(g, l) : g \in ChainInputsUpTo(n - 1), l \in InputLists(ChainKinds(n))}

\* Chain graphs, and chain graphs in which one input of a node the target
\* requires was turned into a Connection to a node that is not after it: the
\* caller did not keep the graph acyclic.
InitCyclic ==
    /\ \E inputs \in ChainInputsUpTo(NumNodes), t \in Nodes,
          ret \in {None, Some(NamePool[1])} :
          /\ \A n \in Nodes \ Required(MkGraph(inputs, t, ret), t) :
                inputs[n] = UnrelatedInputs(n, t)
          /\ target_node = t
          /\ \/ graph = MkGraph(inputs, t, ret)
             \/ \E n \in Required(MkGraph(inputs, t, ret), t) :
                \E i \in 1..Len(inputs[n]) : \E m \in 1..n :
                    graph = MkGraph(WithConnection(inputs, n, i, m), t, ret)
    /\ gizmo_config \in {IgnoreGizmos, RinGizmoOut}
    /\ external_param_values \in Stores(graph)
    /\ node_definitions = [n \in Nodes |-> "unread"]
    /\ outputs_cache = EmptyTable
    /\ gizmo_outputs = <<>>
    /\ stack = <<>>
    /\ status = "init"
    /\ error = None
    /\ result = None
    /\ calls = <<>>

\* The recursion has used up the stack of the thread: the process is
\* aborted, run_graph returns neither Ok nor Err.
StackExhausted ==
    /\ AtInput
    /\ CurrentInput.kind = "Connection"
    /\ ~CacheHit(outputs_cache, CurrentInput.node)
    /\ Len(stack) = MaxDepth
    /\ status' = "abort"
    /\ UNCHANGED <<inputsOfPass, external_param_values, node_definitions,
                   outputs_cache, gizmo_outputs, stack, error, result, calls>>

NextCyclic ==
    \/ RunGraph
    \/ InputConnectionCached
    \/ InputConnectionRun
    \/ InputConnectionResume
    \/ InputExternal
    \/ PreGizmo
    \/ RunOp
    \/ PostGizmo
    \/ Finish
    \/ StackExhausted

\* Passes over graphs that may be cyclic.
SpecCyclic == InitCyclic /\ [][NextCyclic]_vars

\* The nodes that reach themselves through Connection inputs, and the nodes
\* that reach such a node.
OnCycle(g) == {n \in Nodes : n \in Ancestors(g, n)}
ReachesCycle(g) ==
    LET cyc == OnCycle(g) IN
    IF cyc = {} THEN {} ELSE {n \in Nodes : Required(g, n) \cap cyc # {}}
Cyclic(g, target) == \E n \in Required(g, target) : n \in Ancestors(g, n)

\* C17 as claimed: a pass over a cyclic graph never returns, neither a result
\* nor an error.
C17_AsClaimed ==
    Cyclic(graph, target_node) => status \notin {"ok", "err"}

\* The errors raised at the entry of run_node and in its input loop.
EntryErrors == {"DefinitionNotFound", "MissingExternalParameter"}

\* C17 amended: a pass over a cyclic graph never returns a result, and no
\* node that reaches the cycle has its op invoked or is cached.  The pass
\* returns an error only when one is raised before the recursion closes the
\* cycle: a missing definition or external parameter, or any error of a
\* node that does not reach the cycle.  Otherwise the recursion goes on
\* until the stack is exhausted.
C17_CyclicNeverSucceeds ==
    LET reaching == ReachesCycle(graph) IN
    target_node \in reaching =>
        /\ status \notin {"ok", "panic"}
        /\ result = None
        /\ \A n \in reaching : n \notin DOMAIN outputs_cache
        /\ \A i \in 1..Len(calls) : calls[i].node \notin reaching
        /\ status = "err" =>
               \/ Unwrap(error).kind \in EntryErrors
               \/ Unwrap(error).node \notin reaching
        /\ ~TargetReturned

\* The recursion over a cyclic graph went around the cycle, after a producer
\* that is not on the cycle was run, until the stack was exhausted.
C17_Witness ==
    /\ Cyclic(graph, target_node)
    /\ status = "abort"
    /\ \E i, j \in 1..Len(stack) : i < j /\ stack[i].node = stack[j].node
    /\ \E n \in Nodes : OpCount(n) = 1

(***************************************************************************)
(* C18                                                                     *)
(***************************************************************************)
\* The evaluation is single-threaded and synchronous, and every call of an
\* op or hook returns: the pass always takes its next step.
FairSpec == Spec /\ WF_vars(Next)

\* run_graph has returned Ok(result) or Err(error).
Returned ==
    \/ status = "ok" /\ IsSome(result)
    \/ status = "err" /\ IsSome(error) /\ result = None

\* No two calls of an op are for the same node.
NoOpTwice ==
    \A i \in 1..Len(calls) :
        calls[i].kind = "op" =>
            \A j \in 1..(i - 1) :
                calls[j].kind = "op" => calls[j].node # calls[i].node

\* C18: a pass over an acyclic graph eventually ends, with a result or with
\* an error, and invokes the op of every node at most once.
C18_PassEnds ==
    /\ <>Returned
    /\ []NoOpTwice

\* A pass that ended with a result after it ran every node of the graph once.
C18_Witness ==
    /\ Returned
    /\ status = "ok"
    /\ \A n \in Nodes : OpCount(n) = 1
    /\ Len(stack) = 0

(***************************************************************************)
(* C19                                                                     *)
(***************************************************************************)
\* C19: no step of a pass inserts, removes or changes an entry of the
\* external parameter store, and the updated_values of a successful result
\* is the store the caller passed in, under every GizmoConfig.
C19_StoreOnlyRead ==
    /\ [][external_param_values' = external_param_values]_vars
    /\ [](status = "ok" =>
            Unwrap(result).updated_values = external_param_values)

\* A successful pass whose pre-gizmo hook rewrote the value of an External
\* input of the target on its way to the op, and whose result still carries
\* the caller's store.
C19_Witness ==
    /\ status = "ok"
    /\ gizmo_config = RunGizmosInOut(PriorGizmos)
    /\ PreCount(target_node) = 1
    /\ \E i \in 1..Len(graph[target_node].inputs) :
        LET input == graph[target_node].inputs[i]
            ext == ExternalParameter(target_node, input.name) IN
        /\ input.kind = "External"
        /\ ext \in DOMAIN external_param_values
        /\ Unwrap(result).updated_values[ext] = ExtValue(ext)
        /\ \E c \in 1..Len(calls) :
            /\ calls[c].kind = "op"
            /\ calls[c].node = target_node
            /\ calls[c].arg[input.name] # ExtValue(ext)

(***************************************************************************)
(* C20                                                                     *)
(***************************************************************************)
\* The positions in calls of the calls of the given kind.
CallsOf(kind) == {i \in 1..Len(calls) : calls[i].kind = kind}

\* The op of node n was called before position i.
OpBefore(n, i) == \E j \in 1..(i - 1) : calls[j].kind = "op" /\ calls[j].node = n

\* The post-gizmo hook failed: the function is missing or its call failed.
PostHookFailed ==
    /\ IsSome(error)
    /\ Unwrap(error).kind \in {"PostGizmoMissing", "PostGizmoFailed"}

\* C20: in a pass each of the two hooks is invoked at most once, for the
\* target.  The pre-hook comes after the op of every ancestor of the target
\* and after the target's inputs were resolved (it is handed the map built
\* from them), and before the target's op.  The post-hook comes after the
\* target's op and after the target's outputs were inserted in the cache; a
\* failing post-hook leaves the target cached while the pass fails.
C20_HookOrdering ==
    /\ Cardinality(CallsOf("pre_gizmo")) <= 1
    /\ Cardinality(CallsOf("post_gizmo")) <= 1
    /\ \A i \in CallsOf("pre_gizmo") :
        /\ calls[i].node = target_node
        /\ \A a \in Ancestors(graph, target_node) :
               OpBefore(a, i) /\ a \in DOMAIN outputs_cache
        /\ calls[i].arg = BuiltInputs(target_node)
        /\ ~OpBefore(target_node, i)
    /\ \A i \in CallsOf("post_gizmo") :
        /\ calls[i].node = target_node
        /\ OpBefore(target_node, i)
        /\ \A j \in CallsOf("pre_gizmo") : j < i
        /\ target_node \in DOMAIN outputs_cache
        /\ calls[i].arg = outputs_cache[target_node]
    /\ PostHookFailed =>
        /\ status = "err"
        /\ result = None
        /\ OpCount(target_node) = 1
        /\ target_node \in DOMAIN outputs_cache

\* A pass that failed in the post-gizmo hook after the pre-gizmo hook, the op
\* of an ancestor and the op of the target had run: the target is cached.
C20_Witness ==
    /\ status = "err"
    /\ error = Some(Err("PostGizmoFailed", target_node, ""))
    /\ PreCount(target_node) = 1
    /\ PostCount(target_node) = 1
    /\ Ancestors(graph, target_node) # {}
    /\ target_node \in DOMAIN outputs_cache

====
